---- MODULE Spec2Model ----
(***************************************************************************)
(* Turn-guidance decision engine of the negotiation backend                *)
(* (logic.py, ai_service.py, main.py).                                     *)
(*                                                                         *)
(* Representation.                                                         *)
(*   - A Python str is a sequence of one-character strings, so that        *)
(*     `phrase in content`, lower(), strip() and the regular expressions   *)
(*     are computed character by character as the code computes them.      *)
(*   - A price (a Python float holding dollars) is an integer number of    *)
(*     cents.  Texts of the model carry at most two fractional digits.     *)
(*   - An optional value is None (the empty tuple) or Some(v) (<<v>>).     *)
(***************************************************************************)
EXTENDS Integers, Sequences, FiniteSets, TLC

None == <<>>

Some(v) == <<v>>

\* Python truthiness of an optional number: neither None nor zero.
Truthy(x) == x # None /\ x[1] # 0

\* F applied to the value of v.  Python evaluates an argument or a local
\* variable once, where it is bound; TLC evaluates an operator argument or a
\* LET definition again wherever it is used, With binds it once.
With(v, F(_)) == CHOOSE r \in {F(x) : x \in {v}} : TRUE

(***************************************************************************)
(* Characters and str methods                                              *)
(***************************************************************************)
UpperCase == <<"A","B","C","D","E","F","G","H","I","J","K","L","M","N","O","P","Q","R","S","T","U","V","W","X","Y","Z">>

LowerCase == <<"a","b","c","d","e","f","g","h","i","j","k","l","m","n","o","p","q","r","s","t","u","v","w","x","y","z">>

DigitChars == <<"0","1","2","3","4","5","6","7","8","9">>

IsDigit(c) == \E d \in 1..10 : DigitChars[d] = c

DigitVal(c) == (CHOOSE d \in 1..10 : DigitChars[d] = c) - 1

IsSpace(c) == c \in {" ", "\t", "\n", "\r"}

IsDigitOrComma(c) == IsDigit(c) \/ c = ","

IsDigitOrDot(c) == IsDigit(c) \/ c = "."

LowerChar(c) ==
    IF \E k \in 1..26 : UpperCase[k] = c
    THEN LowerCase[CHOOSE k \in 1..26 : UpperCase[k] = c]
    ELSE c

\* str.lower()
lower(s) == [i \in 1..Len(s) |-> LowerChar(s[i])]

\* str.strip()
strip(s) ==
    IF \A i \in 1..Len(s) : IsSpace(s[i]) THEN <<>>
    ELSE LET a == CHOOSE i \in 1..Len(s) :
                    ~IsSpace(s[i]) /\ \A k \in 1..(i-1) : IsSpace(s[k])
             b == CHOOSE i \in 1..Len(s) :
                    ~IsSpace(s[i]) /\ \A k \in (i+1)..Len(s) : IsSpace(s[k])
         IN  SubSeq(s, a, b)

\* Python `p in s` for two strs
Contains(s, p) ==
    \E i \in 1..(Len(s) - Len(p) + 1) : SubSeq(s, i, i + Len(p) - 1) = p

\* s.startswith(p) at index i (1-based)
StartsAt(s, i, p) ==
    i + Len(p) - 1 <= Len(s) /\ SubSeq(s, i, i + Len(p) - 1) = p

\* First index j >= i whose character is not in the class P (Len(s)+1 if none):
\* the end of a greedy P* starting at i.
RunEnd(s, i, P(_)) ==
    CHOOSE j \in i..(Len(s) + 1) :
        /\ (j = Len(s) + 1 \/ ~P(s[j]))
        /\ \A k \in i..(j-1) : P(s[k])

RECURSIVE DigitsVal(_)
\* int() of a run of digits and commas with the commas removed
DigitsVal(ds) ==
    IF ds = <<>> THEN 0
    ELSE With(SubSeq(ds, 1, Len(ds) - 1), LAMBDA front :
         IF ds[Len(ds)] = "," THEN DigitsVal(front)
         ELSE 10 * DigitsVal(front) + DigitVal(ds[Len(ds)]))

\* float("<int>.<frac>") in cents; fractional digits past the second are below
\* the resolution of the model.
CentsOf(intPart, frac) ==
    100 * DigitsVal(intPart)
    + (IF Len(frac) >= 1 THEN 10 * DigitVal(frac[1]) ELSE 0)
    + (IF Len(frac) >= 2 THEN DigitVal(frac[2]) ELSE 0)

RECURSIVE NatText(_)
\* str(n) for a natural number n
NatText(n) ==
    IF n < 10 THEN <<DigitChars[n + 1]>>
    ELSE NatText(n \div 10) \o <<DigitChars[(n % 10) + 1]>>

\* repr() of a non-negative float with at most two decimals, as an f-string
\* interpolates it: 39400 -> 394.0, 38025 -> 380.25, 39450 -> 394.5
FloatText(c) ==
    NatText(c \div 100) \o <<".">> \o
    (IF c % 100 = 0 THEN <<"0">>
     ELSE IF c % 10 = 0 THEN <<DigitChars[((c % 100) \div 10) + 1]>>
     ELSE <<DigitChars[((c % 100) \div 10) + 1], DigitChars[(c % 10) + 1]>>)

(***************************************************************************)
(* Regular expressions of the code                                         *)
(***************************************************************************)
\* r'\$\s*([0-9][0-9,]*(?:\.\d+)?)' anchored at index i:
\* [ok, next index, value of group 1 as float() reads it with commas removed]
PriceMatchAt(s, i) ==
    IF s[i] # "$" THEN [ok |-> FALSE, end |-> i + 1, val |-> 0]
    ELSE With(RunEnd(s, i + 1, IsSpace), LAMBDA j :
         IF j > Len(s) \/ ~IsDigit(s[j])
         THEN [ok |-> FALSE, end |-> i + 1, val |-> 0]
         ELSE With(RunEnd(s, j + 1, IsDigitOrComma), LAMBDA k :
              With(IF k + 1 <= Len(s) /\ s[k] = "." /\ IsDigit(s[k + 1])
                   THEN RunEnd(s, k + 1, IsDigit) ELSE k, LAMBDA m :
              With(SubSeq(s, j, k - 1), LAMBDA intPart :
              With(IF m > k THEN SubSeq(s, k + 1, m - 1) ELSE <<>>, LAMBDA frac :
                   [ok |-> TRUE, end |-> m, val |-> CentsOf(intPart, frac)])))))

\* r'(\d+)\s*days?' anchored at index i (the text is already lower-cased)
DaysMatchAt(s, i) ==
    IF ~IsDigit(s[i]) THEN [ok |-> FALSE, end |-> i + 1, val |-> 0]
    ELSE With(RunEnd(s, i, IsDigit), LAMBDA k :
         With(RunEnd(s, k, IsSpace), LAMBDA j :
              IF StartsAt(s, j, <<"d","a","y">>)
              THEN With(SubSeq(s, i, k - 1), LAMBDA digits :
                   [ok |-> TRUE,
                    end |-> IF j + 3 <= Len(s) /\ s[j + 3] = "s" THEN j + 4 ELSE j + 3,
                    val |-> DigitsVal(digits)])
              ELSE [ok |-> FALSE, end |-> i + 1, val |-> 0]))

\* re.search(...).group(1): the match with the leftmost start, None when
\* there is none
SearchPrice(s) ==
    With({i \in 1..Len(s) : PriceMatchAt(s, i).ok}, LAMBDA starts :
         IF starts = {} THEN None
         ELSE Some(PriceMatchAt(s, CHOOSE i \in starts : \A k \in starts : i <= k).val))

SearchDays(s) ==
    With({i \in 1..Len(s) : DaysMatchAt(s, i).ok}, LAMBDA starts :
         IF starts = {} THEN None
         ELSE Some(DaysMatchAt(s, CHOOSE i \in starts : \A k \in starts : i <= k).val))

\* extract_price: re.findall, then the LAST price mentioned.  A match of the
\* price pattern holds no "$" after its first character, so matches never
\* overlap and findall returns the match at every index where one starts.
extract_price(text) ==
    With({i \in 1..Len(text) : PriceMatchAt(text, i).ok}, LAMBDA starts :
         IF starts = {} THEN None
         ELSE Some(PriceMatchAt(text, CHOOSE i \in starts : \A k \in starts : k <= i).val))

(***************************************************************************)
(* logic.py                                                                *)
(***************************************************************************)
\* logic.py: the agreement vocabulary
strong_signals ==
    << <<"i"," ","a","c","c","e","p","t">>,
       <<"w","e"," ","a","c","c","e","p","t">>,
       <<"a","c","c","e","p","t","e","d">>,
       <<"i"," ","a","g","r","e","e">>,
       <<"w","e"," ","a","g","r","e","e">>,
       <<"a","g","r","e","e","d">>,
       <<"d","e","a","l"," ","c","o","n","f","i","r","m","e","d">>,
       <<"c","o","n","f","i","r","m"," ","d","e","a","l">>,
       <<"c","o","n","f","i","r","m"," ","t","h","e"," ","d","e","a","l">>,
       <<"s","o","u","n","d","s"," ","g","o","o","d">>,
       <<"w","o","r","k","s"," ","f","o","r"," ","m","e">>,
       <<"p","e","r","f","e","c","t">>,
       <<"i","t","'","s"," ","a"," ","d","e","a","l">>,
       <<"i","t","s"," ","a"," ","d","e","a","l">>,
       <<"l","e","t","'","s"," ","d","o"," ","i","t">>,
       <<"l","e","t","s"," ","d","o"," ","i","t">>,
       <<"i"," ","c","a","n"," ","d","o"," ","t","h","a","t">>,
       <<"t","h","a","t"," ","w","o","r","k","s">>,
       <<"d","o","n","e">>,
       <<"f","i","n","e">>,
       <<"o","k"," ","d","e","a","l">>,
       <<"o","k","a","y"," ","d","e","a","l">>,
       <<"d","e","a","l">> >>

\* logic.py: the negation tokens
negations ==
    << <<"d","o","n","'","t">>,
       <<"d","o","n","t">>,
       <<"c","a","n","n","o","t">>,
       <<"c","a","n","'","t">>,
       <<"w","o","n","'","t">>,
       <<"n","o","t">>,
       <<"u","n","a","b","l","e">> >>

\* ai_service.py: the agreement words of rule A
agreement_words ==
    << <<"d","e","a","l">>,
       <<"a","g","r","e","e">>,
       <<"a","c","c","e","p","t">>,
       <<"d","o","n","e">>,
       <<"s","o","u","n","d","s"," ","g","o","o","d">>,
       <<"o","k","a","y">> >>

TxtConfirmed == <<"c","o","n","f","i","r","m","e","d">>

TxtAgreed == <<"a","g","r","e","e","d">>

\* any(phrase in content for phrase in strong_signals)
AnySignal(content) ==
    \E k \in 1..Len(strong_signals) : Contains(content, strong_signals[k])

\* The negation loop without its exception for "confirmed" and "agreed"
NegationHit_no_exception(content) ==
    \E k \in 1..Len(negations) : Contains(content, negations[k])

\* The negation loop: some negation token is in the content and the content
\* holds neither "confirmed" nor "agreed".
NegationHit(content) ==
    \E k \in 1..Len(negations) :
        /\ Contains(content, negations[k])
        /\ ~Contains(content, TxtConfirmed)
        /\ ~Contains(content, TxtAgreed)

\* has_signal with the negation check left out
has_signal_unchecked(content) == AnySignal(content)

\* has_signal after the negation check, on the lower-cased last message
has_signal(content) == AnySignal(content) /\ ~NegationHit(content)

\* final_terms = {price: None, delivery: None, volume: None}, updated with the
\* terms extracted this turn when they are given.
StartTerms(cur) ==
    IF cur # None THEN cur[1]
    ELSE [price |-> None, delivery |-> None, volume |-> None]

RECURSIVE Backfill(_, _, _)
\* for msg in reversed(history): the assistant messages fill the fields that
\* are still None (leftmost price, leftmost day count of the message); the scan
\* stops once price and delivery are both truthy.
Backfill(history, i, ft) ==
    IF i < 1 THEN ft
    ELSE IF history[i].role # "assistant" THEN Backfill(history, i - 1, ft)
    ELSE With(history[i].content, LAMBDA txt :
         With(IF ft.price = None THEN SearchPrice(txt) ELSE ft.price, LAMBDA p :
         With(lower(txt), LAMBDA low :
         With(IF ft.delivery = None THEN SearchDays(low) ELSE ft.delivery, LAMBDA d :
         With([ft EXCEPT !.price = p, !.delivery = d], LAMBDA ft2 :
              IF Truthy(p) /\ Truthy(d) THEN ft2
              ELSE Backfill(history, i - 1, ft2))))))

\* detect_deal_readiness(history, current_extracted_terms): (ready, terms).
\* cur is None when the caller passes no terms, else Some(terms).
detect_deal_readiness(history, cur) ==
    IF Len(history) < 2 THEN [ready |-> FALSE, terms |-> None]
    ELSE With(lower(history[Len(history)].content), LAMBDA content :
         With(has_signal(content), LAMBDA sig :
         With(StartTerms(cur), LAMBDA ft0 :
         With(IF sig THEN Backfill(history, Len(history), ft0) ELSE ft0, LAMBDA ft :
              IF sig /\ ft.price # None /\ ft.delivery # None
              THEN [ready |-> TRUE, terms |-> Some(ft)]
              ELSE [ready |-> FALSE, terms |-> None]))))

\* round(x, 2) of the quotient num/den of cents (den > 0).  Python rounds the
\* binary product; where the decimal product is an exact half cent the binary
\* value lies on either side (round(401*0.995, 2) = 399.0 goes up,
\* round(390.2*0.975, 2) = 380.44 goes down), so the direction is the input
\* tieUp.
Round2(num, den, tieUp) ==
    LET q == num \div den
        r == num % den
    IN  IF 2 * r > den THEN q + 1
        ELSE IF 2 * r < den THEN q
        ELSE IF tieUp THEN q + 1 ELSE q

\* The two places where the binary floating-point result decides and the
\* decimal result lies exactly on the boundary: a half cent in round(x, 2)
\* (tieUp: the binary product lies above it), and a gap of exactly 0.20 or
\* 0.10 between prices that are not both binary fractions (gapOff: the binary
\* quotient lies outside [0.10, 0.20]; (380.25 - 304.2) / 380.25 > 0.20).
FloatOutcomes == [tieUp : BOOLEAN, gapOff : BOOLEAN]

standard_volume == 1000

\* generate_deal_parameters, given the draws of the random generator:
\* op = round(uniform(30, 50) * 10, 2) in cents, tp and rp the two percentages
\* in hundredths of a percent, od = randint(25, 45).
\* generate_deal_parameters with the two percentages exchanged
generate_deal_parameters_exchanged(op, tp, rp, od) ==
    [price |-> [opening |-> op,
                target |-> Round2(op * (10000 - rp), 10000, FALSE),
                reservation |-> Round2(op * (10000 - tp), 10000, FALSE)],
     delivery |-> [opening |-> od,
                   target |-> (od * 85) \div 100,
                   reservation |-> (od * 70) \div 100],
     volume |-> [standard |-> standard_volume]]

generate_deal_parameters(op, tp, rp, od) ==
    [price |-> [opening |-> op,
                target |-> Round2(op * (10000 - tp), 10000, FALSE),
                reservation |-> Round2(op * (10000 - rp), 10000, FALSE)],
     delivery |-> [opening |-> od,
                   target |-> (od * 85) \div 100,
                   reservation |-> (od * 70) \div 100],
     volume |-> [standard |-> standard_volume]]

\* A seed argument: None, a str (the student_id create_session passes) or an int
StrSeed(text) == Some([kind |-> "str", text |-> text, num |-> 0])

IntSeed(num) == Some([kind |-> "int", text |-> "", num |-> num])

\* hash(seed) % (2**32) of a str: a number fixed by the string and by the salt
\* the process drew at its start (str hashes are salted per process unless
\* PYTHONHASHSEED is set).  Small numbers stand for the 32-bit values.
StrHash(salt, text) == salt * 10 + (IF text = "alice" THEN 1 ELSE 2)

\* Lines 7-11: the process after `if seed is not None: ... random.seed(seed)`.
\* rng is the state of the module-level generator: the number it was last
\* seeded with and how many calls have drawn from it since.
seed_generator(proc, seed) ==
    IF seed = None THEN proc
    ELSE [proc EXCEPT !.rng =
             [seed |-> IF seed[1].kind = "str"
                       THEN StrHash(proc.salt, seed[1].text)
                       ELSE seed[1].num,
              pos |-> 0]]

\* The four draws of one call (random.uniform three times, random.randint
\* once) from the generator in state rng.  The generator is a deterministic
\* function of its state; this function stands for the Mersenne Twister and
\* keeps the draws within the ranges of the calls.
Twister(rng) ==
    LET k == rng.seed * 8 + rng.pos
    IN  [op |-> 30000 + ((k * 1237) % 20001),
         tp |-> 500 + ((k * 53) % 301),
         rp |-> 1200 + ((k * 71) % 301),
         od |-> 25 + ((k * 5) % 21)]

\* generate_deal_parameters(seed) in a process: the parameters returned and
\* the process after the call
generate(proc, seed) ==
    LET seeded == seed_generator(proc, seed)
        d == Twister(seeded.rng)
    IN  [params |-> generate_deal_parameters(d.op, d.tp, d.rp, d.od),
         process |-> [seeded EXCEPT !.rng.pos = @ + 1]]

\* format_deal_parameters(params)
format_deal_parameters(params) ==
    <<"\n","-","-","-"," ","N","E","G","O","T","I","A","T","I","O","N"," ","D","A","T","A"," ","-","-","-","\n","1","."," ","O","p","e","n","i","n","g"," ","P","r","i","c","e",":"," ","$">>
    \o FloatText(params.price.opening) \o
    <<"\n","2","."," ","T","a","r","g","e","t"," ","P","r","i","c","e",":"," ","$">>
    \o FloatText(params.price.target) \o
    <<"\n","3","."," ","W","a","l","k","-","a","w","a","y"," ","P","r","i","c","e",":"," ","$">>
    \o FloatText(params.price.reservation) \o
    <<"\n","4","."," ","S","t","a","n","d","a","r","d"," ","V","o","l","u","m","e",":"," ">>
    \o NatText(params.volume.standard) \o
    <<" ","u","n","i","t","s","\n","5","."," ","O","p","e","n","i","n","g"," ","D","e","l","i","v","e","r","y",":"," ">>
    \o NatText(params.delivery.opening) \o
    <<" ","d","a","y","s","\n">>

(***************************************************************************)
(* ai_service.py                                                           *)
(***************************************************************************)

TxtOpeningPrice == <<"O","p","e","n","i","n","g"," ","P","r","i","c","e",":"," ","$">>

\* The fallback of the anchor: re.search(r'Opening Price: \$([0-9.]+)', s),
\* float(group 1), else 400.0.  [raised, val]: float() raises ValueError on a
\* group with two dots or no digit.
default_price == 40000

\* The fallback with the deal-parameters text never read
OpeningPriceOf_default(dps) == [raised |-> FALSE, val |-> default_price]

OpeningPriceOf(dps) ==
    With({i \in 1..Len(dps) :
            /\ StartsAt(dps, i, TxtOpeningPrice)
            /\ i + Len(TxtOpeningPrice) <= Len(dps)
            /\ IsDigitOrDot(dps[i + Len(TxtOpeningPrice)])}, LAMBDA starts :
    IF dps = <<>> \/ starts = {}
    THEN [raised |-> FALSE, val |-> default_price]
    ELSE With((CHOOSE i \in starts : \A k \in starts : i <= k)
              + Len(TxtOpeningPrice), LAMBDA a :
         With(SubSeq(dps, a, RunEnd(dps, a, IsDigitOrDot) - 1), LAMBDA g :
         With({k \in 1..Len(g) : g[k] = "."}, LAMBDA dots :
         With(IF dots = {} THEN Len(g) + 1
              ELSE CHOOSE k \in dots : \A k2 \in dots : k <= k2, LAMBDA dot :
              IF Cardinality(dots) > 1 \/ Len(g) = Cardinality(dots)
              THEN [raised |-> TRUE, val |-> 0]
              ELSE With(SubSeq(g, 1, dot - 1), LAMBDA intPart :
                   With(IF dot < Len(g) THEN SubSeq(g, dot + 1, Len(g)) ELSE <<>>,
                        LAMBDA frac :
                        [raised |-> FALSE, val |-> CentsOf(intPart, frac)])))))))

RECURSIVE LastAssistantPrice(_, _)
\* for msg in reversed(history): the last price of the most recent assistant
\* message whose extract_price is truthy; None when there is none.
LastAssistantPrice(history, i) ==
    IF i < 1 THEN None
    ELSE IF history[i].role # "assistant" THEN LastAssistantPrice(history, i - 1)
    ELSE With(extract_price(history[i].content), LAMBDA price :
              IF Truthy(price) THEN price
              ELSE LastAssistantPrice(history, i - 1))

\* last_ai_price as generate_turn_guidance resolves it: [raised, val]
last_ai_price(history, dps) ==
    With(LastAssistantPrice(history, Len(history)), LAMBDA p :
         IF Truthy(p) THEN [raised |-> FALSE, val |-> p[1]]
         ELSE OpeningPriceOf(dps))

\* A TurnGuidance: the rule that produced the instruction and the numbers the
\* f-string interpolates.  price is the price the counterpart is told to
\* confirm, hold or offer (None when the instruction names none).
Guide(rule, price, delivery) ==
    [raised |-> FALSE, rule |-> rule, price |-> price, delivery |-> delivery,
     cause |-> "none"]

\* An exception leaving generate_turn_guidance
Raised(exc) ==
    [raised |-> TRUE, rule |-> "raised", price |-> None, delivery |-> None,
     cause |-> exc]

standard_vol == 1000

\* A price in cents that a binary float holds exactly (a multiple of 0.25)
ExactFloat(c) == c % 25 = 0

\* RULE E with the factors of the two lower tiers exchanged
concession_medium_largest(L, U, fp) ==
    IF L = 0 THEN Raised("ZeroDivisionError")
    ELSE IF \/ 100 * (L - U) > 20 * L
            \/ /\ 100 * (L - U) = 20 * L
               /\ ~(ExactFloat(L) /\ ExactFloat(U))
               /\ fp.gapOff
         THEN Guide("lowball", Some(Round2(L * 995, 1000, fp.tieUp)), None)
    ELSE IF \/ 100 * (L - U) < 10 * L
            \/ /\ 100 * (L - U) = 10 * L
               /\ ~(ExactFloat(L) /\ ExactFloat(U))
               /\ fp.gapOff
         THEN Guide("close", Some(Round2(L * 985, 1000, fp.tieUp)), None)
    ELSE Guide("standard", Some(Round2(L * 975, 1000, fp.tieUp)), None)

\* RULE E with the product cut to the cent below instead of rounded
concession_truncated(L, U, fp) ==
    IF L = 0 THEN Raised("ZeroDivisionError")
    ELSE IF 100 * (L - U) > 20 * L
         THEN Guide("lowball", Some((L * 995) \div 1000), None)
    ELSE IF 100 * (L - U) < 10 * L
         THEN Guide("close", Some((L * 975) \div 1000), None)
    ELSE Guide("standard", Some((L * 985) \div 1000), None)

\* RULE E with the lowball factor written 1.005 for 0.995
concession_upward(L, U, fp) ==
    IF L = 0 THEN Raised("ZeroDivisionError")
    ELSE IF 100 * (L - U) > 20 * L
         THEN Guide("lowball", Some(Round2(L * 1005, 1000, fp.tieUp)), None)
    ELSE IF 100 * (L - U) < 10 * L
         THEN Guide("close", Some(Round2(L * 975, 1000, fp.tieUp)), None)
    ELSE Guide("standard", Some(Round2(L * 985, 1000, fp.tieUp)), None)

\* RULE E: the three gap tiers on gap_percent = (L - U) / L, compared without
\* division (L > 0): gap > 0.20 iff 100 (L - U) > 20 L.  Where the decimal gap
\* is exactly 0.20 or 0.10 and L or U is no binary fraction, the binary gap
\* falls in the middle tier or outside it (fp.gapOff).
concession(L, U, fp) ==
    IF L = 0 THEN Raised("ZeroDivisionError")
    ELSE IF \/ 100 * (L - U) > 20 * L
            \/ /\ 100 * (L - U) = 20 * L
               /\ ~(ExactFloat(L) /\ ExactFloat(U))
               /\ fp.gapOff
         THEN Guide("lowball", Some(Round2(L * 995, 1000, fp.tieUp)), None)
    ELSE IF \/ 100 * (L - U) < 10 * L
            \/ /\ 100 * (L - U) = 10 * L
               /\ ~(ExactFloat(L) /\ ExactFloat(U))
               /\ fp.gapOff
         THEN Guide("close", Some(Round2(L * 975, 1000, fp.tieUp)), None)
    ELSE Guide("standard", Some(Round2(L * 985, 1000, fp.tieUp)), None)

\* RULE D: history[-2] is a user message equal to the input after
\* strip().lower()
stalemate(user_input, history) ==
    /\ Len(history) >= 2
    /\ history[Len(history) - 1].role = "user"
    /\ \E mine \in {strip(user_input)},
          last_user_input \in {strip(history[Len(history) - 1].content)} :
          lower(mine) = lower(last_user_input)

\* RULES B to E and the final hold, in the order of the code
negotiation_rules(user_input, history, extracted, L, fp) ==
    IF Truthy(extracted.volume) /\ extracted.volume[1] < standard_vol
    THEN Guide("volume", Some(L), None)
    ELSE IF Truthy(extracted.price) /\ extracted.price[1] > L
    THEN Guide("typo", Some(L), None)
    ELSE IF stalemate(user_input, history)
    THEN Guide("stalemate", Some(L), None)
    ELSE IF Truthy(extracted.price)
    THEN concession(L, extracted.price[1], fp)
    ELSE Guide("hold", Some(L), None)

\* any(w in user_input.lower() for w in agreement_words)
is_agreement(user_input) ==
    \E low \in {lower(user_input)} :
        \E k \in 1..Len(agreement_words) : Contains(low, agreement_words[k])

\* RULE A and what follows it.  terms is the second value detect_deal_readiness
\* returned; subscripting it when it is None raises TypeError.
agreement_check(user_input, history, extracted, terms, L, fp) ==
    LET rest == negotiation_rules(user_input, history, extracted, L, fp)
        has_final_price == Truthy(extracted.price) \/ L # 0
        price_check == IF ~has_final_price
                       THEN Guide("price_unclear", None, None)
                       ELSE rest
    IN  IF ~is_agreement(user_input) THEN rest
        ELSE IF Truthy(extracted.delivery) THEN price_check
        ELSE IF terms = None THEN Raised("TypeError")
        ELSE IF ~Truthy(terms[1].delivery)
        THEN Guide("delivery_missing", None, None)
        ELSE price_check

\* generate_turn_guidance(user_input, history, deal_params_str), with the
\* result of extract_negotiation_terms(user_input) given as `extracted`
generate_turn_guidance(user_input, history, dps, extracted, fp) ==
    With(detect_deal_readiness(history, Some(extracted)), LAMBDA det :
         IF det.ready
         THEN Guide("deal", det.terms[1].price, det.terms[1].delivery)
         ELSE With(last_ai_price(history, dps), LAMBDA anchor :
              IF anchor.raised THEN Raised("ValueError")
              ELSE agreement_check(user_input, history, extracted, det.terms,
                                   anchor.val, fp)))

\* create_negotiation_prompt without its try/except
create_negotiation_prompt_unguarded(user_input, dps, history, extracted, fp) ==
    generate_turn_guidance(user_input, history, dps, extracted, fp)

\* create_negotiation_prompt: the guidance that reaches the prompt; any
\* exception of generate_turn_guidance is logged (cause) and becomes
\* "Negotiate professionally."
create_negotiation_prompt(user_input, dps, history, extracted, fp) ==
    With(generate_turn_guidance(user_input, history, dps, extracted, fp),
         LAMBDA g : IF g.raised
                    THEN [Guide("fallback", None, None) EXCEPT !.cause = g.cause]
                    ELSE g)

TxtThinkOpen == <<"<","t","h","i","n","k","i","n","g",">">>

TxtThinkClose == <<"<","/","t","h","i","n","k","i","n","g",">">>

TxtParagraph == <<"\n", "\n">>

prefixes ==
    << <<"N","E","G","O","T","I","A","T","I","N","G">>,
       <<"N","e","g","o","t","i","a","t","i","n","g">>,
       <<"n","e","g","o","t","i","a","t","i","n","g">>,
       <<"R","e","s","p","o","n","s","e",":">>,
       <<"A","l","e","x",":">>,
       <<"S","t","a","t","e",":">> >>

\* Index of the leftmost occurrence of p in s at or after i; 0 when none
IndexFrom(s, p, i) ==
    With({k \in i..(Len(s) - Len(p) + 1) : StartsAt(s, k, p)}, LAMBDA found :
         IF found = {} THEN 0
         ELSE CHOOSE k \in found : \A k2 \in found : k <= k2)

RECURSIVE strip_thinking(_)
\* re.sub(r'<thinking>.*?</thinking>', '', text, flags=re.DOTALL)
strip_thinking(s) ==
    With(IndexFrom(s, TxtThinkOpen, 1), LAMBDA a :
         IF a = 0 THEN s
         ELSE With(IndexFrom(s, TxtThinkClose, a + Len(TxtThinkOpen)), LAMBDA b :
              IF b = 0 THEN s
              ELSE With(SubSeq(s, b + Len(TxtThinkClose), Len(s)), LAMBDA rest :
                        SubSeq(s, 1, a - 1) \o strip_thinking(rest))))

\* text[len(prefix):].lstrip(" :")
lstrip_colon(s) ==
    With(RunEnd(s, 1, LAMBDA c : c \in {" ", ":"}), LAMBDA a : SubSeq(s, a, Len(s)))

RECURSIVE strip_prefixes(_, _)
\* for prefix in prefixes: a matching prefix (case-insensitive) is cut off
strip_prefixes(s, k) ==
    IF k > Len(prefixes) THEN s
    ELSE IF \E low \in {lower(s)}, prefix \in {lower(prefixes[k])} :
               StartsAt(low, 1, prefix)
         THEN With(SubSeq(s, Len(prefixes[k]) + 1, Len(s)), LAMBDA cut :
              With(lstrip_colon(cut), LAMBDA rest : strip_prefixes(rest, k + 1)))
    ELSE strip_prefixes(s, k + 1)

RECURSIVE split_paragraphs(_)
\* text.split('\n\n')
split_paragraphs(s) ==
    With(IndexFrom(s, TxtParagraph, 1), LAMBDA a :
         IF a = 0 THEN <<s>>
         ELSE With(SubSeq(s, a + 2, Len(s)), LAMBDA rest :
                   <<SubSeq(s, 1, a - 1)>> \o split_paragraphs(rest)))

RECURSIVE join_paragraphs(_)
\* '\n\n'.join(paragraphs)
join_paragraphs(ps) ==
    IF Len(ps) = 0 THEN <<>>
    ELSE IF Len(ps) = 1 THEN ps[1]
    ELSE With(Tail(ps), LAMBDA rest : ps[1] \o TxtParagraph \o join_paragraphs(rest))

\* clean_ai_response(text)
clean_ai_response(text) ==
    With(strip_thinking(text), LAMBDA t0 :
    With(strip(t0), LAMBDA t1 :
    With(strip_prefixes(t1, 1), LAMBDA t2 :
    With(split_paragraphs(t2), LAMBDA paragraphs :
    With(Len(paragraphs) \div 2, LAMBDA mid :
         IF /\ Len(paragraphs) > 1
            /\ Len(paragraphs) % 2 = 0
            /\ SubSeq(paragraphs, 1, mid) = SubSeq(paragraphs, mid + 1, Len(paragraphs))
         THEN With(SubSeq(paragraphs, 1, mid), LAMBDA half : join_paragraphs(half))
         ELSE strip(t2))))))

(***************************************************************************)
(* main.py                                                                 *)
(***************************************************************************)
\* The greeting create_session stores as the first message
greeting(deal_params) ==
    <<"H","e","l","l","o","!"," ","I","'","m"," ","A","l","e","x"," ","f","r","o","m"," ","C","h","i","p","S","o","u","r","c","e"," ","I","n","c","."," ","W","e"," ","a","r","e"," ","l","o","o","k","i","n","g"," ","t","o"," ","s","e","l","l"," ","o","u","r"," ","C","S","-","1","0","0","0"," ","c","h","i","p","s","."," ","O","u","r"," ","s","t","a","n","d","a","r","d"," ","o","p","e","n","i","n","g"," ","i","s"," ","$">>
    \o FloatText(deal_params.price.opening) \o
    <<" ","p","e","r"," ","u","n","i","t"," ","w","i","t","h"," ">>
    \o NatText(deal_params.delivery.opening) \o
    <<"-","d","a","y"," ","d","e","l","i","v","e","r","y","."," ","W","h","a","t"," ","w","o","r","k","s"," ","f","o","r"," ","y","o","u","?">>

Msg(role, content) == [role |-> role, content |-> content]

\* The item create_session puts in the table
new_session(deal_params) ==
    With(deal_params, LAMBDA params :
         [deal_params |-> params,
          deal_params_str |-> format_deal_parameters(params),
          conversation |-> <<Msg("assistant", greeting(params))>>])

(***************************************************************************)
(* The text oracle (opaque): what it may answer to a prompt carrying the   *)
(* guidance g.  The styles are a sample of its freedom; in both it states  *)
(* exactly the price the guidance names:                                   *)
(*   "price"  that price and nothing else,                                 *)
(*   "terms"  that price, a delivery time, and a question to close.        *)
(* A detected deal is answered by the confirmation the guidance dictates.  *)
(***************************************************************************)
TxtOffer1 == <<"A","l","e","x",":"," ","I"," ","c","a","n"," ","o","f","f","e","r"," ","$">>

TxtOffer2 == <<" ","p","e","r"," ","u","n","i","t",".">>

TxtTalk == <<"L","e","t"," ","u","s"," ","k","e","e","p"," ","t","a","l","k","i","n","g",".">>

TxtConfirm1 == <<"D","e","a","l"," ","c","o","n","f","i","r","m","e","d",":"," ","$">>

TxtComma == <<",", " ">>

TxtDaysDot == <<" ","d","a","y","s",".">>

TxtDollar == <<"$">>

TxtTerms2 == <<","," ","2","0"," ","d","a","y","s","."," ","D","e","a","l","?">>

TxtTermsOnly == <<"W","e"," ","n","e","e","d"," ","2","0"," ","d","a","y","s","."," ","D","e","a","l","?">>

oracle_text(g, style) ==
    IF g.rule = "deal"
    THEN TxtConfirm1 \o FloatText(g.price[1]) \o TxtComma
         \o NatText(g.delivery[1]) \o TxtDaysDot
    ELSE IF style = "terms"
    THEN (IF g.price = None THEN TxtTermsOnly
          ELSE TxtDollar \o FloatText(g.price[1]) \o TxtTerms2)
    ELSE (IF g.price = None THEN TxtTalk
          ELSE TxtOffer1 \o FloatText(g.price[1]) \o TxtOffer2)

\* The ways the call of the text oracle fails, and str(e) of the exception:
\* bedrock.invoke_model raising, and a response body without 'content'
FailStyles == {"throttled", "no_content"}

oracle_error(style) ==
    IF style = "throttled"
    THEN <<"A","n"," ","e","r","r","o","r"," ","o","c","c","u","r","r","e","d"," ","(","T","h","r","o","t","t","l","i","n","g","E","x","c","e","p","t","i","o","n",")"," ","w","h","e","n"," ","c","a","l","l","i","n","g"," ","t","h","e"," ","I","n","v","o","k","e","M","o","d","e","l"," ","o","p","e","r","a","t","i","o","n",":"," ","T","o","o"," ","m","a","n","y"," ","r","e","q","u","e","s","t","s",","," ","p","l","e","a","s","e"," ","w","a","i","t"," ","b","e","f","o","r","e"," ","t","r","y","i","n","g"," ","a","g","a","i","n",".">>
    ELSE <<"'","c","o","n","t","e","n","t","'">>

TxtError == <<"E","r","r","o","r",":"," ">>

\* get_bedrock_response with the whole str(e) in the reply
get_bedrock_response_untruncated(g, style) ==
    IF style \in FailStyles
    THEN TxtError \o oracle_error(style)
    ELSE With(strip(oracle_text(g, style)), LAMBDA text : clean_ai_response(text))

\* get_bedrock_response(prompt): clean_ai_response(text.strip()) when the call
\* succeeds, f"Error: {str(e)[:50]}" when anything in it raises
get_bedrock_response(g, style) ==
    IF style \in FailStyles
    THEN With(oracle_error(style), LAMBDA e :
              TxtError \o SubSeq(e, 1, IF Len(e) < 50 THEN Len(e) ELSE 50))
    ELSE With(strip(oracle_text(g, style)), LAMBDA text : clean_ai_response(text))

\* The calls of bedrock.invoke_model one get_bedrock_response makes: the one
\* of line 236, whether it returns or raises; the except clause makes none
invocations(style) == 1

(***************************************************************************)
(* State                                                                   *)
(***************************************************************************)
VARIABLES
    table,    \* the session store: session id -> item
    nturns,   \* chat turns served so far
    turn,     \* locals and return value of the last chat request (None before)
    probe,    \* arguments and result of the last direct call of a pure function
    process   \* the Python process serving the requests: its str-hash salt and
              \* the state of the module-level generator of `random` (None in
              \* the specifications that take the generator's draws as inputs)

vars == <<table, nturns, turn, probe, process>>

SessionIds == {"s1"}

NoTerms == [price |-> None, delivery |-> None, volume |-> None]

Init ==
    /\ table = [s \in {} |-> None]
    /\ nturns = 0
    /\ turn = None
    /\ probe = None
    /\ process = None

\* POST /api/sessions/new, with the draws d of the random generator
create_session(sid, d) ==
    /\ sid \notin DOMAIN table
    /\ \E item \in {new_session(generate_deal_parameters(d.op, d.tp, d.rp, d.od))} :
          table' = [s \in DOMAIN table \cup {sid} |->
                       IF s = sid THEN item ELSE table[s]]
    /\ UNCHANGED <<nturns, turn, probe, process>>

\* The reply stored in the place of the user's message
append_reply_over_input(conversation, ai_response) ==
    [conversation EXCEPT ![Len(conversation)] = Msg("assistant", ai_response)]

\* session["conversation"].append({"role": "assistant", "content": ai_response})
append_reply(conversation, ai_response) ==
    Append(conversation, Msg("assistant", ai_response))

\* POST /api/chat for a stored session, the whole handler: the user message is
\* appended, the guidance computed on that history, the oracle asked, its
\* reply appended, the item put back, and readiness detected on the stored
\* conversation for the returned deal_ready.
chat(sid, user_input, extracted, style) ==
    /\ sid \in DOMAIN table
    /\ \E session \in {table[sid]} :
       \E conv1 \in {Append(session.conversation, Msg("user", user_input))} :
       \E dps \in {session.deal_params_str} :
       \E g \in {create_negotiation_prompt(user_input, dps, conv1, extracted, fp) :
                    fp \in FloatOutcomes} :
       \E ai_response \in {get_bedrock_response(g, style)} :
       \E conv2 \in {append_reply(conv1, ai_response)} :
       \E verdict \in {detect_deal_readiness(conv2, None)} :
       \E is_deal \in {detect_deal_readiness(conv1, Some(extracted)).ready} :
       \E anchor \in {last_ai_price(conv1, dps)} :
          /\ table' = [table EXCEPT ![sid].conversation = conv2]
          /\ turn' = Some([sid |-> sid,
                           user_input |-> user_input,
                           extracted |-> extracted,
                           is_deal |-> is_deal,
                           anchor |-> anchor,
                           guidance |-> g,
                           ai_response |-> ai_response,
                           reply_failed |-> style \in FailStyles,
                           invocations |-> invocations(style),
                           deal_ready |-> verdict.ready,
                           proposed_terms |-> verdict.terms])
    /\ nturns' = nturns + 1
    /\ UNCHANGED <<probe, process>>

(***************************************************************************)
(* Spec: one session driven through chat turns                             *)
(***************************************************************************)
MaxTurns == 2

\* The draws of the random generator create_session may see
Draws ==
    { [op |-> 40000, tp |-> 500, rp |-> 1200, od |-> 30],
      [op |-> 45050, tp |-> 800, rp |-> 1450, od |-> 45] }

TxtDeal == <<"d","e","a","l">>

TxtOffer300 == <<"I"," ","o","f","f","e","r"," ","$","3","0","0">>

TxtOffer300b == <<" ","i"," ","O","F","F","E","R"," ","$","3","0","0"," ">>

TxtSmallOrder == <<"5","0","0"," ","u","n","i","t","s"," ","a","t"," ","$","4","6","0">>

TxtZeroOrder == <<"0"," ","u","n","i","t","s"," ","a","t"," ","$","4","6","0">>

TxtOkaySmallOrder == <<"o","k","a","y",","," ","5","0","0"," ","u","n","i","t","s"," ","a","t"," ","$","4","6","0">>

TxtOffer370 == <<"$","3","7","0">>

\* A user message with the terms the extraction oracle returns for it
UserTurns ==
    { [text |-> TxtDeal, extracted |-> NoTerms],
      [text |-> TxtOffer300, extracted |-> [NoTerms EXCEPT !.price = Some(30000)]],
      [text |-> TxtOffer300b, extracted |-> [NoTerms EXCEPT !.price = Some(30000)]],
      [text |-> TxtSmallOrder,
       extracted |-> [NoTerms EXCEPT !.price = Some(46000), !.volume = Some(500)]],
      [text |-> TxtOkaySmallOrder,
       extracted |-> [NoTerms EXCEPT !.price = Some(46000), !.volume = Some(500)]],
      [text |-> TxtZeroOrder,
       extracted |-> [NoTerms EXCEPT !.price = Some(46000), !.volume = Some(0)]],
      [text |-> TxtOffer370, extracted |-> [NoTerms EXCEPT !.price = Some(37000)]] }

ReplyStyles == {"price", "terms"}

CreateSession == \E sid \in SessionIds, d \in Draws : create_session(sid, d)

ChatTurn ==
    /\ nturns < MaxTurns
    /\ \E sid \in SessionIds, u \in UserTurns, style \in ReplyStyles :
          chat(sid, u.text, u.extracted, style)

Next == CreateSession \/ ChatTurn

Spec == Init /\ [][Next]_vars

(***************************************************************************)
(* SpecLong: a long negotiation in which the user closes in on the         *)
(* counterpart's price, turn after turn                                    *)
(***************************************************************************)
MaxLongTurns == 6

LongDraws == { [op |-> 40000, tp |-> 500, rp |-> 1200, od |-> 30] }

TxtOffer345 == <<"$","3","4","5">>

LongTurns ==
    { [text |-> TxtOffer370, extracted |-> [NoTerms EXCEPT !.price = Some(37000)]],
      [text |-> TxtOffer345, extracted |-> [NoTerms EXCEPT !.price = Some(34500)]] }

CreateLong == \E sid \in SessionIds, d \in LongDraws : create_session(sid, d)

ChatLong ==
    /\ nturns < MaxLongTurns
    /\ \E sid \in SessionIds, u \in LongTurns :
          chat(sid, u.text, u.extracted, "price")

NextLong == CreateLong \/ ChatLong

SpecLong == Init /\ [][NextLong]_vars

(***************************************************************************)
(* SpecDetect: detect_deal_readiness called directly on short histories    *)
(***************************************************************************)
MaxHist == 3

\* Messages a history may hold.  price and days are the price and the delivery
\* time the message states to its reader, None when it states none; the
\* detector sees role and content only.  The third is the greeting
\* create_session stores ("... $400.0 per unit with 30-day delivery. ...").
DetectMessages ==
    { [role |-> "assistant", price |-> Some(38000), days |-> Some(20),
       content |-> <<"$","3","8","0",","," ","2","0"," ","d","a","y","s">>],
      [role |-> "assistant", price |-> Some(120050), days |-> Some(45),
       content |-> <<"O","u","r"," ","p","r","i","c","e"," ","i","s"," ","$","1",",","2","0","0",".","5","0"," ","f","o","r"," ","d","e","l","i","v","e","r","y"," ","i","n"," ","4","5"," ","D","a","y","s",".">>],
      [role |-> "assistant", price |-> Some(40000), days |-> Some(30),
       content |-> greeting(generate_deal_parameters(40000, 500, 1200, 30))],
      [role |-> "user", price |-> None, days |-> None,
       content |-> <<"d","e","a","l">>],
      [role |-> "user", price |-> None, days |-> None,
       content |-> <<"n","o","t"," ","a"," ","d","e","a","l">>],
      [role |-> "user", price |-> None, days |-> None,
       content |-> <<"W","h","y"," ","n","o","t","?"," ","A","g","r","e","e","d",".">>],
      [role |-> "user", price |-> None, days |-> None,
       content |-> <<"I"," ","d","o","n","'","t"," ","a","g","r","e","e">>],
      [role |-> "user", price |-> Some(30000), days |-> Some(10),
       content |-> <<"I"," ","o","f","f","e","r"," ","$","3","0","0"," ","i","n"," ","1","0"," ","d","a","y","s">>] }

\* current_extracted_terms: omitted (None), or the terms of this turn
DetectTerms ==
    { None,
      Some(NoTerms),
      Some([NoTerms EXCEPT !.price = Some(35000), !.delivery = Some(15)]),
      Some([NoTerms EXCEPT !.price = Some(35000)]),
      Some([NoTerms EXCEPT !.delivery = Some(15)]) }

DetectHistories == UNION { [1..n -> DetectMessages] : n \in 0..MaxHist }

AsMessages(h) == [i \in 1..Len(h) |-> Msg(h[i].role, h[i].content)]

\* The arguments of the call are drawn in the initial state
InitDetect ==
    /\ table = [s \in {} |-> None]
    /\ nturns = 0
    /\ turn = None
    /\ process = None
    /\ \E h \in DetectHistories, cur \in DetectTerms :
          probe = Some([history |-> h, cur |-> cur, called |-> FALSE,
                        result |-> [ready |-> FALSE, terms |-> None]])

DetectCall ==
    /\ ~probe[1].called
    /\ \E h \in {AsMessages(probe[1].history)}, cur \in {probe[1].cur} :
          probe' = Some([probe[1] EXCEPT
                           !.called = TRUE,
                           !.result = detect_deal_readiness(h, cur)])
    /\ UNCHANGED <<table, nturns, turn, process>>

NextDetect == DetectCall

SpecDetect == InitDetect /\ [][NextDetect]_vars

(***************************************************************************)
(* SpecGuide: generate_turn_guidance called directly with the counterpart  *)
(* at L and the user offering U                                            *)
(***************************************************************************)
\* Anchors and offers around the tier boundaries.  Where L or 0.8 L or 0.9 L
\* is no binary fraction (38025, 30400, 30900, 30380, 5), the binary gap at
\* that boundary does fall outside the middle tier:
\* (380.25 - 304.2) / 380.25 > 0.20, (304.0 - 273.6) / 304.0 < 0.10.
Anchors ==
    { 40000, 38025, 35000, 30000, 30400, 30900, 30380, 1000, 500, 5, 1 }

Offers(L) ==
    { U \in { 30000, 34000, 37000, L, L + 1, 1,
              (8 * L) \div 10 - 1, (8 * L) \div 10, (8 * L) \div 10 + 1,
              (9 * L) \div 10 - 1, (9 * L) \div 10, (9 * L) \div 10 + 1 } : U > 0 }

GuideHistory(L, U) ==
    << Msg("assistant", TxtOffer1 \o FloatText(L) \o TxtOffer2),
       Msg("user", TxtDollar \o FloatText(U)) >>

InitGuide ==
    /\ table = [s \in {} |-> None]
    /\ nturns = 0
    /\ turn = None
    /\ process = None
    /\ \E L \in Anchors : \E U \in Offers(L) :
          probe = Some([L |-> L, U |-> U, called |-> FALSE,
                        guidance |-> Guide("none", None, None)])

GuideCall ==
    /\ ~probe[1].called
    /\ \E fp \in FloatOutcomes, U \in {probe[1].U} :
       \E history \in {GuideHistory(probe[1].L, U)} :
          probe' = Some([probe[1] EXCEPT
                           !.called = TRUE,
                           !.guidance = generate_turn_guidance(
                               history[2].content, history, <<>>,
                               [NoTerms EXCEPT !.price = Some(U)], fp)])
    /\ UNCHANGED <<table, nturns, turn, process>>

NextGuide == GuideCall

SpecGuide == InitGuide /\ [][NextGuide]_vars


(***************************************************************************)
(* SpecAnchor: the resolution of the counterpart's last price, called      *)
(* directly on short histories and deal-parameters texts                   *)
(***************************************************************************)
TxtTellMore == <<"T","e","l","l"," ","m","e"," ","m","o","r","e">>

\* Messages a history may hold; price is the price the message states (the
\* last one it mentions), None when it states none.
AnchorMessages ==
    { [role |-> "assistant", price |-> Some(38000),
       content |-> <<"$","3","8","0",","," ","2","0"," ","d","a","y","s">>],
      [role |-> "assistant", price |-> None, content |-> TxtTermsOnly],
      [role |-> "assistant", price |-> Some(0),
       content |-> <<"S","h","i","p","p","i","n","g"," ","i","s"," ","$","0",".">>],
      [role |-> "user", price |-> Some(30000),
       content |-> <<"I"," ","o","f","f","e","r"," ","$","3","0","0"," ","i","n"," ","1","0"," ","d","a","y","s">>] }

\* Deal-parameters texts: the one format_deal_parameters writes, the "" that
\* chat passes for an item without one, and a text without an opening price.
\* opening is the opening price the text states.
AnchorParams ==
    { [opening |-> Some(45050),
       text |-> format_deal_parameters(generate_deal_parameters(45050, 800, 1450, 45))],
      [opening |-> None, text |-> <<>>],
      [opening |-> None,
       text |-> <<"S","t","a","n","d","a","r","d"," ","O","r","d","e","r"," ","="," ","1","0","0","0"," ","u","n","i","t","s">>] }

AnchorHistories == UNION { [1..n -> AnchorMessages] : n \in 0..MaxHist }

InitAnchor ==
    /\ table = [s \in {} |-> None]
    /\ nturns = 0
    /\ turn = None
    /\ process = None
    /\ \E h \in AnchorHistories, dps \in AnchorParams :
          probe = Some([history |-> h, dps |-> dps, called |-> FALSE,
                        anchor |-> [raised |-> FALSE, val |-> 0],
                        guidance |-> Guide("none", None, None)])

\* One turn on the history: the user message is appended as chat appends it,
\* and the guidance is computed on the result
AnchorCall ==
    /\ ~probe[1].called
    /\ \E fp \in FloatOutcomes, dps \in {probe[1].dps.text} :
       \E history \in {Append(AsMessages(probe[1].history),
                              Msg("user", TxtTellMore))} :
          probe' = Some([probe[1] EXCEPT
                           !.called = TRUE,
                           !.anchor = last_ai_price(history, dps),
                           !.guidance = create_negotiation_prompt(
                               TxtTellMore, dps, history, NoTerms, fp)])
    /\ UNCHANGED <<table, nturns, turn, process>>

NextAnchor == AnchorCall

SpecAnchor == InitAnchor /\ [][NextAnchor]_vars

(***************************************************************************)
(* SpecGen: the body of generate_deal_parameters on draws taken over the   *)
(* ranges of its four random calls, ends included                          *)
(***************************************************************************)
\* round(uniform(30, 50) * 10, 2) in cents
OpeningDraws == { 30000, 30001, 40000, 45075, 49999, 50000 }

\* uniform(0.05, 0.08) in hundredths of a percent
TargetDraws == { 500, 650, 800 }

\* uniform(0.12, 0.15) in hundredths of a percent
ReservationDraws == { 1200, 1350, 1500 }

\* randint(25, 45)
DeliveryDraws == 25..45

InitGen ==
    /\ table = [s \in {} |-> None]
    /\ nturns = 0
    /\ turn = None
    /\ process = None
    /\ \E op \in OpeningDraws, tp \in TargetDraws, rp \in ReservationDraws,
          od \in DeliveryDraws :
          probe = Some([op |-> op, tp |-> tp, rp |-> rp, od |-> od,
                        called |-> FALSE, params |-> None])

GenCall ==
    /\ ~probe[1].called
    /\ probe' = Some([probe[1] EXCEPT
                        !.called = TRUE,
                        !.params = Some(generate_deal_parameters(
                            probe[1].op, probe[1].tp, probe[1].rp, probe[1].od))])
    /\ UNCHANGED <<table, nturns, turn, process>>

NextGen == GenCall

SpecGen == InitGen /\ [][NextGen]_vars

(***************************************************************************)
(* SpecSeed: generate_deal_parameters(seed) called again and again by the  *)
(* processes that serve the function, one after another                    *)
(***************************************************************************)
MaxCalls == 3

\* The salt a process may draw at its start
Salts == {1, 2}

\* What the operating system's entropy may seed the generator with at import
EntropySeeds == {101, 102}

ProcessStarts == [salt : Salts, rng : [seed : EntropySeeds, pos : {0}]]

StudentIds == {"alice", "bob"}

Seeds == {None, IntSeed(7)} \cup {StrSeed(s) : s \in StudentIds}

InitSeed ==
    /\ table = [s \in {} |-> None]
    /\ nturns = 0
    /\ turn = None
    /\ probe = Some([calls |-> <<>>])
    /\ process \in ProcessStarts

\* One call; its seed and result are appended to the record of calls
SeedCall ==
    /\ Len(probe[1].calls) < MaxCalls
    /\ \E seed \in Seeds :
       \E r \in {generate(process, seed)} :
          /\ process' = r.process
          /\ probe' = Some([calls |-> Append(probe[1].calls,
                               [seed |-> seed, salt |-> process.salt,
                                params |-> r.params])])
    /\ UNCHANGED <<table, nturns, turn>>

\* The function's container is replaced: later requests are served by a new
\* process, with its own salt and a freshly seeded generator
ColdStart ==
    /\ process' \in ProcessStarts
    /\ UNCHANGED <<table, nturns, turn, probe>>

NextSeed == SeedCall \/ ColdStart

SpecSeed == InitSeed /\ [][NextSeed]_vars

(***************************************************************************)
(* SpecShared: two sessions created and served by one process              *)
(***************************************************************************)
MaxSharedTurns == 1

PairIds == {"s1", "s2"}

\* POST /api/sessions/new in a process, the whole handler:
\* generate_deal_parameters(request.student_id) seeds (if given a seed) and
\* draws from the process's generator
create_session_in_process(sid, student_id) ==
    /\ sid \notin DOMAIN table
    /\ \E r \in {generate(process, student_id)} :
       \E item \in {new_session(r.params)} :
          /\ table' = [s \in DOMAIN table \cup {sid} |->
                          IF s = sid THEN item ELSE table[s]]
          /\ process' = r.process
    /\ UNCHANGED <<nturns, turn>>

\* request.student_id: absent or a str
StudentSeeds == {None} \cup {StrSeed(s) : s \in StudentIds}

SharedTurns ==
    { [text |-> TxtOffer300, extracted |-> [NoTerms EXCEPT !.price = Some(30000)]],
      [text |-> TxtTellMore, extracted |-> NoTerms] }

\* probe keeps the process as it started and the student_id of each session
InitShared ==
    /\ table = [s \in {} |-> None]
    /\ nturns = 0
    /\ turn = None
    /\ process \in ProcessStarts
    /\ probe = Some([start |-> process, student_id |-> [s \in {} |-> None]])

CreateShared ==
    \E sid \in PairIds, student_id \in StudentSeeds :
       /\ create_session_in_process(sid, student_id)
       /\ probe' = Some([probe[1] EXCEPT !.student_id =
                            [s \in DOMAIN table \cup {sid} |->
                                IF s = sid THEN student_id
                                ELSE probe[1].student_id[s]]])

ChatShared ==
    /\ nturns < MaxSharedTurns
    /\ \E sid \in PairIds, u \in SharedTurns :
          chat(sid, u.text, u.extracted, "price")

NextShared == CreateShared \/ ChatShared

SpecShared == InitShared /\ [][NextShared]_vars

(***************************************************************************)
(* SpecRound: the offer rule E emits is stated by the counterpart, becomes *)
(* the anchor of the next turn, and the user answers at the same gap       *)
(***************************************************************************)
RoundStarts == { 40000, 45075 }

Tiers == { "lowball", "standard", "close" }

\* The user's offer at an unchanged gap from the anchor L: 30% below it,
\* 15% below it, or at it
OfferAtGap(tier, L) ==
    IF tier = "lowball" THEN (7 * L) \div 10
    ELSE IF tier = "standard" THEN (85 * L) \div 100
    ELSE L

\* probe: the anchor L now stated by the counterpart, the tier the user keeps
\* to, and the anchor before the last application (None before the first)
InitRound ==
    /\ table = [s \in {} |-> None]
    /\ nturns = 0
    /\ turn = None
    /\ process = None
    /\ \E L \in RoundStarts, tier \in Tiers :
          probe = Some([L |-> L, tier |-> tier, prev |-> None])

\* One turn: the guidance for the user's offer at the anchor L; the price it
\* names is the next anchor
FeedBack ==
    /\ \E fp \in FloatOutcomes, L \in {probe[1].L} :
       \E U \in {OfferAtGap(probe[1].tier, L)} :
       \E history \in {GuideHistory(L, U)} :
       \E g \in {generate_turn_guidance(history[2].content, history, <<>>,
                                        [NoTerms EXCEPT !.price = Some(U)], fp)} :
          /\ g.rule = probe[1].tier
          /\ probe' = Some([probe[1] EXCEPT !.L = g.price[1], !.prev = Some(L)])
    /\ UNCHANGED <<table, nturns, turn, process>>

NextRound == FeedBack

\* Fairness: the turns keep coming as long as one changes the anchor
SpecRound == InitRound /\ [][NextRound]_vars /\ WF_vars(NextRound)

(***************************************************************************)
(* SpecOutage: chat turns during which the text oracle may fail            *)
(***************************************************************************)
MaxOutageTurns == 2

OutageTurns ==
    { [text |-> TxtDeal, extracted |-> NoTerms],
      [text |-> TxtOffer300, extracted |-> [NoTerms EXCEPT !.price = Some(30000)]],
      [text |-> TxtOffer370, extracted |-> [NoTerms EXCEPT !.price = Some(37000)]],
      [text |-> TxtTellMore, extracted |-> NoTerms] }

CreateOutage == \E sid \in SessionIds, d \in LongDraws : create_session(sid, d)

ChatOutage ==
    /\ nturns < MaxOutageTurns
    /\ \E sid \in SessionIds, u \in OutageTurns, style \in {"price"} \cup FailStyles :
          chat(sid, u.text, u.extracted, style)

NextOutage == CreateOutage \/ ChatOutage

SpecOutage == Init /\ [][NextOutage]_vars

(***************************************************************************)
(* SpecExtract: generate_turn_guidance on what the extraction oracle may   *)
(* answer                                                                  *)
(***************************************************************************)
\* A value json.loads returns (or "invalid": the text is no JSON and
\* json.loads raises).  fields is the dict of an object: key -> number, or
\* None for null.
Json(type, fields) == [type |-> type, fields |-> fields]

AllAbsent ==
    Json("object", [k \in {"price", "delivery", "volume"} |-> None])

\* What the call of the extraction oracle does: invoke_model raises, or the
\* text it returns parses to json
ExtractionOutcomes ==
    { [raises |-> TRUE, json |-> Json("invalid", <<>>)],
      [raises |-> FALSE, json |-> Json("invalid", <<>>)],
      [raises |-> FALSE, json |-> Json("null", <<>>)],
      [raises |-> FALSE, json |-> Json("array", <<>>)],
      [raises |-> FALSE, json |-> Json("number", <<>>)],
      [raises |-> FALSE, json |-> Json("object", [k \in {"price"} |-> Some(30000)])],
      [raises |-> FALSE, json |-> AllAbsent],
      [raises |-> FALSE,
       json |-> Json("object", [k \in {"price", "delivery", "volume"} |->
                                   IF k = "price" THEN Some(30000) ELSE None])],
      [raises |-> FALSE,
       json |-> Json("object", [k \in {"price", "delivery", "volume"} |->
                                   IF k = "price" THEN Some(38000)
                                   ELSE IF k = "delivery" THEN Some(20)
                                   ELSE Some(1000)])] }

\* extract_negotiation_terms(user_input): the parsed value whatever it is,
\* the all-None dict when anything raised
extract_negotiation_terms(outcome) ==
    IF outcome.raises \/ outcome.json.type = "invalid" THEN AllAbsent
    ELSE outcome.json

\* extracted.get(key): None for a missing key
Get(data, key) == IF key \in DOMAIN data.fields THEN data.fields[key] ELSE None

\* generate_turn_guidance(user_input, history, deal_params_str), the call of
\* extract_negotiation_terms included; .get on a value that is no dict
\* raises AttributeError
generate_turn_guidance_on(user_input, history, dps, outcome, fp) ==
    With(extract_negotiation_terms(outcome), LAMBDA data :
         IF data.type # "object" THEN Raised("AttributeError")
         ELSE generate_turn_guidance(
                  user_input, history, dps,
                  [price |-> Get(data, "price"),
                   delivery |-> Get(data, "delivery"),
                   volume |-> Get(data, "volume")], fp))

InitExtract ==
    /\ table = [s \in {} |-> None]
    /\ nturns = 0
    /\ turn = None
    /\ process = None
    /\ \E outcome \in ExtractionOutcomes, u \in UserTurns, d \in Draws :
          probe = Some([outcome |-> outcome, user_input |-> u.text, draws |-> d,
                        called |-> FALSE, data |-> Json("none", <<>>),
                        guidance |-> Guide("none", None, None)])

\* The first turn of a new session, up to the guidance
ExtractCall ==
    /\ ~probe[1].called
    /\ \E fp \in FloatOutcomes, d \in {probe[1].draws},
          user_input \in {probe[1].user_input} :
       \E session \in {new_session(generate_deal_parameters(d.op, d.tp, d.rp, d.od))} :
       \E history \in {Append(session.conversation, Msg("user", user_input))} :
          probe' = Some([probe[1] EXCEPT
                           !.called = TRUE,
                           !.data = extract_negotiation_terms(probe[1].outcome),
                           !.guidance = generate_turn_guidance_on(
                               user_input, history, session.deal_params_str,
                               probe[1].outcome, fp)])
    /\ UNCHANGED <<table, nturns, turn, process>>

SpecExtract == InitExtract /\ [][ExtractCall]_vars

(***************************************************************************)
(* SpecStore: chat and evaluation requests that name stored sessions and   *)
(* sessions the store does not hold                                        *)
(***************************************************************************)
MaxStoreTurns == 1

MaxRequests == 3

StoreIds == {"s1", "s2"}

TxtNotFound == <<"S","e","s","s","i","o","n"," ","n","o","t"," ","f","o","u","n","d">>

\* HTTPException(status_code=404, detail="Session not found")
HTTPException(status_code, detail) ==
    [status_code |-> status_code, detail |-> detail]

\* table.get_item(Key={'session_id': ...}): the response holds 'Item' or not
get_item(sid) == IF sid \in DOMAIN table THEN Some(table[sid]) ELSE None

\* The number of the next request; the outcome of the last one is in probe
Served == IF probe = None THEN 0 ELSE probe[1].n

\* A handler that puts an item for the id it did not find
not_found_creating(handler, sid) ==
    /\ get_item(sid) = None
    /\ table' = [s \in DOMAIN table \cup {sid} |->
                    IF s = sid THEN [conversation |-> <<>>] ELSE table[s]]
    /\ probe' = Some([n |-> Served + 1, handler |-> handler, sid |-> sid,
                      raised |-> Some(HTTPException(404, TxtNotFound)),
                      invocations |-> 0, report |-> None])
    /\ UNCHANGED <<nturns, turn, process>>

\* chat and evaluate_session when 'Item' is not in the response: the
\* handler raises before it does anything else
not_found(handler, sid) ==
    /\ get_item(sid) = None
    /\ probe' = Some([n |-> Served + 1, handler |-> handler, sid |-> sid,
                      raised |-> Some(HTTPException(404, TxtNotFound)),
                      invocations |-> 0, report |-> None])
    /\ UNCHANGED <<table, nturns, turn, process>>

\* get_evaluation: the oracle's report, or "Error generating evaluation: "
\* and the text of its failure
get_evaluation(style) ==
    IF style \in FailStyles
    THEN <<"E","r","r","o","r"," ","g","e","n","e","r","a","t","i","n","g"," ","e","v","a","l","u","a","t","i","o","n",":"," ">>
         \o oracle_error(style)
    ELSE <<"F","I","N","A","L"," ","E","V","A","L","U","A","T","I","O","N"," ","R","E","P","O","R","T">>

\* POST /api/evaluate for a stored session: one oracle call, nothing stored
evaluate_session(sid, style) ==
    /\ get_item(sid) # None
    /\ probe' = Some([n |-> Served + 1, handler |-> "evaluate", sid |-> sid,
                      raised |-> None, invocations |-> 1,
                      report |-> Some(get_evaluation(style))])
    /\ UNCHANGED <<table, nturns, turn, process>>

CreateStored == \E sid \in StoreIds, d \in Draws : create_session(sid, d)

ChatStored ==
    /\ nturns < MaxStoreTurns
    /\ \E sid \in StoreIds, u \in LongTurns, style \in {"price"} \cup FailStyles :
          chat(sid, u.text, u.extracted, style)

RequestUnknown ==
    /\ Served < MaxRequests
    /\ \E handler \in {"chat", "evaluate"}, sid \in StoreIds :
          not_found(handler, sid)

EvaluateStored ==
    /\ Served < MaxRequests
    /\ \E sid \in StoreIds, style \in {"report", "throttled"} :
          evaluate_session(sid, style)

NextStore ==
    \/ CreateStored
    \/ ChatStored
    \/ RequestUnknown
    \/ EvaluateStored

SpecStore == Init /\ [][NextStore]_vars

(***************************************************************************)
(* SpecRace: chat requests for one session that may overlap.  A request    *)
(* reads the item, computes on its own copy, and puts the copy back.       *)
(***************************************************************************)
MaxRaceTurns == 2

Requests == {"r1", "r2"}

RaceStyles == {"price", "throttled"}

\* The requests that have read the item and not yet put it back, each with
\* its copy; and every message a put_item has written, with its position
InitRace ==
    /\ table = [s \in {} |-> None]
    /\ nturns = 0
    /\ turn = None
    /\ process = None
    /\ probe = Some([inflight |-> [r \in {} |-> None], written |-> {}])

\* chat, lines 89-93: the item is read into the request's session
chat_read(r, sid) ==
    /\ r \notin DOMAIN probe[1].inflight
    /\ get_item(sid) # None
    /\ probe' = Some([probe[1] EXCEPT
                        !.inflight = [q \in DOMAIN @ \cup {r} |->
                                         IF q = r
                                         THEN [sid |-> sid, session |-> get_item(sid)[1]]
                                         ELSE @[q]]])
    /\ UNCHANGED <<table, nturns, turn, process>>

\* chat, lines 95-119, on the session the request read: both messages are
\* appended to the copy and put_item stores the copy as the item
chat_write(r, user_input, extracted, style) ==
    /\ r \in DOMAIN probe[1].inflight
    /\ \E sid \in {probe[1].inflight[r].sid} :
       \E session \in {probe[1].inflight[r].session} :
       \E conv1 \in {Append(session.conversation, Msg("user", user_input))} :
       \E dps \in {session.deal_params_str} :
       \E g \in {create_negotiation_prompt(user_input, dps, conv1, extracted, fp) :
                    fp \in FloatOutcomes} :
       \E ai_response \in {get_bedrock_response(g, style)} :
       \E conv2 \in {append_reply(conv1, ai_response)} :
       \E verdict \in {detect_deal_readiness(conv2, None)} :
       \E is_deal \in {detect_deal_readiness(conv1, Some(extracted)).ready} :
       \E anchor \in {last_ai_price(conv1, dps)} :
          /\ table' = [table EXCEPT ![sid] = [session EXCEPT !.conversation = conv2]]
          /\ turn' = Some([sid |-> sid,
                           user_input |-> user_input,
                           extracted |-> extracted,
                           is_deal |-> is_deal,
                           anchor |-> anchor,
                           guidance |-> g,
                           ai_response |-> ai_response,
                           reply_failed |-> style \in FailStyles,
                           invocations |-> invocations(style),
                           deal_ready |-> verdict.ready,
                           proposed_terms |-> verdict.terms])
          /\ probe' = Some([inflight |-> [q \in DOMAIN probe[1].inflight \ {r} |->
                                             probe[1].inflight[q]],
                            written |-> probe[1].written \cup
                               { [sid |-> sid, pos |-> i, msg |-> conv2[i]] :
                                    i \in 1..Len(conv2) }])
    /\ nturns' = nturns + 1
    /\ UNCHANGED process

CreateRace == \E sid \in SessionIds, d \in Draws : create_session(sid, d)

ReadRace ==
    /\ nturns + Cardinality(DOMAIN probe[1].inflight) < MaxRaceTurns
    /\ \E r \in Requests, sid \in SessionIds : chat_read(r, sid)

WriteRace ==
    \E r \in Requests, u \in LongTurns, style \in RaceStyles :
       chat_write(r, u.text, u.extracted, style)

NextRace == CreateRace \/ ReadRace \/ WriteRace

SpecRace == InitRace /\ [][NextRace]_vars

(***************************************************************************)
(* SpecClose: one turn of a session, up to the guidance, on a history that *)
(* holds the greeting, what the counterpart said since, and the user's     *)
(* message                                                                 *)
(***************************************************************************)
MaxSaid == 2

\* Counterpart messages: one price; two prices, the user's offer quoted
\* before the counterpart's own; no price
CloseMessages ==
    { <<"$","3","8","0",","," ","2","0"," ","d","a","y","s">>,
      <<"Y","o","u"," ","o","f","f","e","r","e","d"," ","$","3","0","0","."," ","I"," ","c","a","n"," ","d","o"," ","$","3","9","0",","," ","2","0"," ","d","a","y","s",".">>,
      TxtTermsOnly }

\* The user's message with the terms the extraction oracle returns for it
CloseTurns ==
    { [text |-> TxtDeal, extracted |-> NoTerms],
      [text |-> <<"D","e","a","l"," ","a","t"," ","$","1",","," ","1","0"," ","d","a","y","s">>,
       extracted |-> [NoTerms EXCEPT !.price = Some(100), !.delivery = Some(10)]],
      [text |-> TxtOffer370, extracted |-> [NoTerms EXCEPT !.price = Some(37000)]] }

InitClose ==
    /\ table = [s \in {} |-> None]
    /\ nturns = 0
    /\ turn = None
    /\ process = None
    /\ \E d \in Draws, u \in CloseTurns,
          said \in UNION { [1..n -> CloseMessages] : n \in 0..MaxSaid } :
          probe = Some([draws |-> d, said |-> said, user |-> u, called |-> FALSE,
                        reservation |-> 0,
                        verdict |-> [ready |-> FALSE, terms |-> None],
                        anchor |-> [raised |-> FALSE, val |-> 0],
                        guidance |-> Guide("none", None, None)])

\* chat, lines 96-103, for the session create_session stored with the draws:
\* the readiness verdict, the anchor and the guidance of the turn
CloseCall ==
    /\ ~probe[1].called
    /\ \E fp \in FloatOutcomes, d \in {probe[1].draws}, u \in {probe[1].user} :
       \E session \in {new_session(generate_deal_parameters(d.op, d.tp, d.rp, d.od))} :
       \E dps \in {session.deal_params_str} :
       \E history \in {session.conversation
                          \o [i \in 1..Len(probe[1].said) |->
                                 Msg("assistant", probe[1].said[i])]
                          \o <<Msg("user", u.text)>>} :
          probe' = Some([probe[1] EXCEPT
                           !.called = TRUE,
                           !.reservation = session.deal_params.price.reservation,
                           !.verdict = detect_deal_readiness(history, Some(u.extracted)),
                           !.anchor = last_ai_price(history, dps),
                           !.guidance = create_negotiation_prompt(
                               u.text, dps, history, u.extracted, fp)])
    /\ UNCHANGED <<table, nturns, turn, process>>

SpecClose == InitClose /\ [][CloseCall]_vars

(***************************************************************************)
(* Properties                                                              *)
(***************************************************************************)
\* The vocabulary of the readiness contract, read off a message as written
AgreementPhraseIn(msg) ==
    \E low \in {lower(msg)} :
        \E k \in 1..Len(strong_signals) : Contains(low, strong_signals[k])

NegationTokenIn(msg) ==
    \E low \in {lower(msg)} :
        \E k \in 1..Len(negations) : Contains(low, negations[k])

ConfirmationTokenIn(msg) ==
    \E low \in {lower(msg)} : Contains(low, TxtConfirmed) \/ Contains(low, TxtAgreed)

AgreementWordIn(msg) ==
    \E low \in {lower(msg)} :
        \E k \in 1..Len(agreement_words) : Contains(low, agreement_words[k])

\* An agreement phrase that the negation check does not suppress
UnnegatedAgreement(msg) ==
    AgreementPhraseIn(msg) /\ (NegationTokenIn(msg) => ConfirmationTokenIn(msg))

\* The direct call of SpecDetect or SpecGuide has returned
Called == probe # None /\ probe[1].called

\* Rules 4 to 8 of the policy table
Rules4to8 == {"volume", "typo", "stalemate", "lowball", "close", "standard", "hold"}

\* C1: the detector returns ready only if the last message of the history
\* holds an agreement phrase the negation check does not suppress and price and
\* delivery of the returned terms are both resolved; otherwise, and on every
\* history of fewer than 2 messages, it returns not-ready with no terms.
C1_ReadyOnlyWithSignalAndTerms ==
    Called =>
        LET h == probe[1].history
            r == probe[1].result
        IN  /\ r.ready =>
                /\ Len(h) >= 2
                /\ UnnegatedAgreement(h[Len(h)].content)
                /\ r.terms # None
                /\ r.terms[1].price # None
                /\ r.terms[1].delivery # None
            /\ ~r.ready => r.terms = None
            /\ Len(h) < 2 => ~r.ready

\* C1 happens: a history of two messages or more is found ready with price and
\* delivery resolved and no volume.
C1_ReadyWithoutVolume ==
    /\ Called
    /\ probe[1].result.ready
    /\ Len(probe[1].history) >= 2
    /\ probe[1].result.terms[1].volume = None

\* C2: on a not-ready chat turn no price that rules 4 to 8 tell the
\* counterpart to offer or hold is below the session's reservation price.
C2_NeverBelowReservation ==
    turn # None =>
        LET t == turn[1]
        IN  (~t.is_deal /\ t.guidance.rule \in Rules4to8) =>
                t.guidance.price[1] >= table[t.sid].deal_params.price.reservation

\* C3: in a chat session, when the user's message equals their preceding
\* message up to case and surrounding whitespace and none of rules 1 to 5
\* matches, the guidance is the hold-firm rule at the counterpart's current
\* price.
C3_RepeatIsStalemate ==
    turn # None =>
        LET t == turn[1]
            conv == table[t.sid].conversation
            n == Len(conv)
        IN  (/\ n >= 5
             /\ conv[n - 1].role = "user"
             /\ conv[n - 3].role = "user"
             /\ lower(strip(conv[n - 1].content)) = lower(strip(conv[n - 3].content))
             /\ ~t.is_deal
             /\ ~AgreementPhraseIn(t.user_input)
             /\ ~AgreementWordIn(t.user_input)
             /\ ~(t.extracted.volume # None /\ t.extracted.volume[1] < 1000)
             /\ ~(t.extracted.price # None /\ t.extracted.price[1] > t.anchor.val))
            => /\ t.guidance.rule = "stalemate"
               /\ t.guidance.price = Some(t.anchor.val)

\* C4: when readiness is not detected, the user's message holds an agreement
\* phrase and no delivery is resolvable from the extracted terms or from the
\* counterpart's earlier messages, the guidance that reaches the prompt is the
\* delivery-still-needed instruction.
C4_AgreementWithoutDelivery ==
    turn # None =>
        LET t == turn[1]
            conv == table[t.sid].conversation
        IN  (/\ ~t.is_deal
             /\ AgreementPhraseIn(t.user_input)
             /\ t.extracted.delivery = None
             /\ \A i \in 1..(Len(conv) - 2) :
                   conv[i].role = "assistant"
                       => SearchDays(lower(conv[i].content)) = None)
            => t.guidance.rule = "delivery_missing"

\* C5: on a not-ready turn whose extracted volume is present and below 1000
\* and whose extracted price is above the counterpart's last price, the
\* guidance is the volume penalty at the counterpart's current price.
C5_VolumeBeforeTypo ==
    turn # None =>
        LET t == turn[1]
        IN  (/\ ~t.is_deal
             /\ t.extracted.volume # None
             /\ t.extracted.volume[1] < 1000
             /\ t.extracted.price # None
             /\ t.extracted.price[1] > t.anchor.val)
            => /\ t.guidance.rule = "volume"
               /\ t.guidance.price = Some(t.anchor.val)

\* The tier of rule 7 for the gap (L - U) / L, both boundaries in the middle
C6_Tier(L, U) ==
    IF 100 * (L - U) > 20 * L THEN [rule |-> "lowball", factor |-> 995]
    ELSE IF 100 * (L - U) < 10 * L THEN [rule |-> "close", factor |-> 975]
    ELSE [rule |-> "standard", factor |-> 985]

\* C6: for an anchor L > 0 and a user price U with 0 < U <= L the tier is the
\* one of the gap (L - U) / L, the boundaries 0.10 and 0.20 in the middle tier,
\* and the offer is L * factor rounded to the cent.
C6_GapTiers ==
    (Called /\ 0 < probe[1].U /\ probe[1].U <= probe[1].L) =>
        LET L == probe[1].L
            g == probe[1].guidance
            tier == C6_Tier(L, probe[1].U)
        IN  /\ g.rule = tier.rule
            /\ g.price # None
            /\ 2 * (1000 * g.price[1] - L * tier.factor) <= 1000
            /\ 2 * (L * tier.factor - 1000 * g.price[1]) <= 1000

\* C7: the deal_ready flag a chat turn returns is true only if the user's
\* message of that turn holds an agreement phrase that is not negated.
C7_ReadyOnlyOnUserSignal ==
    turn # None =>
        (turn[1].deal_ready => UnnegatedAgreement(turn[1].user_input))

\* C8: when the latest user message holds an un-negated agreement phrase and
\* yields no price or delivery of its own and the most recent counterpart
\* message states a price P and a delivery of D days, the detector returns
\* ready with price P and delivery D; when no delivery was mentioned this turn
\* or by the counterpart it returns not-ready.
C8_TermsOfLastCounterpartMessage ==
    Called =>
        LET h == probe[1].history
            cur == probe[1].cur
            r == probe[1].result
            assistants == {i \in 1..Len(h) : h[i].role = "assistant"}
        IN  (/\ Len(h) >= 2
             /\ h[Len(h)].role = "user"
             /\ UnnegatedAgreement(h[Len(h)].content)
             /\ (cur = None \/ (cur[1].price = None /\ cur[1].delivery = None)))
            => /\ \A i \in assistants :
                    (/\ \A k \in assistants : k <= i
                     /\ h[i].price # None
                     /\ h[i].days # None)
                    => /\ r.ready
                       /\ r.terms[1].price = h[i].price
                       /\ r.terms[1].delivery = h[i].days
               /\ (\A i \in assistants : h[i].days = None) => ~r.ready

\* C9: a latest user message with a negation token and neither "confirmed"
\* nor "agreed" is never ready, whatever terms are extracted or in the
\* history; with "confirmed" or "agreed" in it the negation token does not
\* suppress the signal: an agreement phrase with price and delivery
\* extracted is ready.
C9_NegationSuppression ==
    Called =>
        LET h == probe[1].history
            cur == probe[1].cur
            r == probe[1].result
        IN  (Len(h) >= 1 /\ h[Len(h)].role = "user") =>
                /\ (/\ NegationTokenIn(h[Len(h)].content)
                    /\ ~ConfirmationTokenIn(h[Len(h)].content))
                   => ~r.ready
                /\ (/\ NegationTokenIn(h[Len(h)].content)
                    /\ ConfirmationTokenIn(h[Len(h)].content)
                    /\ AgreementPhraseIn(h[Len(h)].content)
                    /\ Len(h) >= 2
                    /\ cur # None
                    /\ cur[1].price # None
                    /\ cur[1].delivery # None)
                   => r.ready

\* C9 happens: an agreement phrase behind a negation token, price and delivery
\* extracted this turn, and the detector returns not-ready.
C9_NegatedPhraseWithTerms ==
    /\ Called
    /\ Len(probe[1].history) >= 2
    /\ probe[1].history[Len(probe[1].history)].role = "user"
    /\ AgreementPhraseIn(probe[1].history[Len(probe[1].history)].content)
    /\ NegationTokenIn(probe[1].history[Len(probe[1].history)].content)
    /\ ~ConfirmationTokenIn(probe[1].history[Len(probe[1].history)].content)
    /\ probe[1].cur # None
    /\ probe[1].cur[1].price # None
    /\ probe[1].cur[1].delivery # None
    /\ ~probe[1].result.ready

\* The reply of the turn states the price the guidance names and no other
ReplyStatesGuidancePrice(t) ==
    /\ t.guidance.price # None
    /\ SearchPrice(t.ai_response) = t.guidance.price
    /\ extract_price(t.ai_response) = t.guidance.price

\* C10: on a not-ready chat turn every price rules 4 to 8 mandate is at most
\* the anchor of that turn, and when the reply states exactly that price the
\* anchor resolved at the next turn is at most the anchor of this turn.
C10_MonotonicConcessions ==
    turn # None =>
        LET t == turn[1]
            item == table[t.sid]
        IN  (~t.is_deal /\ t.guidance.rule \in Rules4to8) =>
                /\ t.guidance.price # None
                /\ t.guidance.price[1] <= t.anchor.val
                /\ ReplyStatesGuidancePrice(t) =>
                       last_ai_price(item.conversation, item.deal_params_str).val
                           <= t.anchor.val

\* C10 happens: a second turn concedes from an anchor already below the
\* opening price, and the reply states the conceded price.
C10_SecondConcession ==
    /\ turn # None
    /\ nturns = 2
    /\ ~turn[1].is_deal
    /\ turn[1].guidance.rule \in {"lowball", "close", "standard"}
    /\ ReplyStatesGuidancePrice(turn[1])
    /\ turn[1].anchor.val < table[turn[1].sid].deal_params.price.opening
    /\ turn[1].guidance.price[1] < turn[1].anchor.val

\* The anchor the fallback chain names for a history and a deal-parameters
\* text: the price of the most recent counterpart message that states one
\* (any price when zeroCounts, else a price other than 0), else the opening
\* price of the text, else the default.
ChainAnchor(h, dps, zeroCounts) ==
    LET priced == {i \in 1..Len(h) :
                     /\ h[i].role = "assistant"
                     /\ h[i].price # None
                     /\ (zeroCounts \/ h[i].price[1] # 0)}
    IN  IF priced # {}
        THEN h[CHOOSE i \in priced : \A k \in priced : k <= i].price[1]
        ELSE IF dps.opening # None THEN dps.opening[1]
        ELSE default_price

\* C11 as stated: whenever the decision table is evaluated the anchor is a
\* defined number, the price of the most recent counterpart message that
\* contains a price, else the opening price of the deal-parameters text, else
\* 400.0; the hold instruction names that number.
C11_AnchorNeverAbsent ==
    (probe # None /\ probe[1].called) =>
        /\ ~probe[1].anchor.raised
        /\ probe[1].anchor.val = ChainAnchor(probe[1].history, probe[1].dps, TRUE)
        /\ probe[1].guidance.rule = "hold"
        /\ probe[1].guidance.price = Some(probe[1].anchor.val)

\* C11 amended: the anchor is always a defined number other than 0: the price
\* of the most recent counterpart message whose price is not 0, else the
\* opening price of the deal-parameters text, else 400.0; the hold
\* instruction names that number.
C11_AnchorNeverAbsentNonzero ==
    (probe # None /\ probe[1].called) =>
        /\ ~probe[1].anchor.raised
        /\ probe[1].anchor.val # 0
        /\ probe[1].anchor.val = ChainAnchor(probe[1].history, probe[1].dps, FALSE)
        /\ probe[1].guidance.rule = "hold"
        /\ probe[1].guidance.price = Some(probe[1].anchor.val)

\* C11 witness: no counterpart message states a price and the text states no
\* opening price, and the table was evaluated at the default 400.0
C11_DefaultAnchorUsed ==
    /\ probe # None
    /\ probe[1].called
    /\ Len(probe[1].history) >= 1
    /\ \A i \in 1..Len(probe[1].history) :
          probe[1].history[i].role = "assistant" => probe[1].history[i].price = None
    /\ probe[1].dps.opening = None
    /\ probe[1].anchor.val = default_price
    /\ probe[1].guidance.price = Some(default_price)

\* C12: every DealParameters value generate produces has reservation.price <
\* target.price < opening.price and reservation.delivery < target.delivery <
\* opening.delivery, the opening delivery in 25..45, the target delivery 85%
\* and the reservation delivery 70% of it rounded down, and the standard
\* volume 1000.
C12_ParametersOrdered ==
    (probe # None /\ probe[1].called) =>
        \E p \in {probe[1].params[1]} :
           /\ p.price.reservation < p.price.target
           /\ p.price.target < p.price.opening
           /\ p.delivery.reservation < p.delivery.target
           /\ p.delivery.target < p.delivery.opening
           /\ p.delivery.opening \in 25..45
           /\ 100 * p.delivery.target <= 85 * p.delivery.opening
           /\ 85 * p.delivery.opening < 100 * (p.delivery.target + 1)
           /\ 100 * p.delivery.reservation <= 70 * p.delivery.opening
           /\ 70 * p.delivery.opening < 100 * (p.delivery.reservation + 1)
           /\ p.volume.standard = 1000

\* C12 witness: the lowest opening price with the largest target reduction
\* and the smallest reservation reduction, at the shortest opening delivery
C12_NarrowestParameters ==
    /\ probe # None
    /\ probe[1].called
    /\ probe[1].params[1].price =
          [opening |-> 30000, target |-> 27600, reservation |-> 26400]
    /\ probe[1].params[1].delivery =
          [opening |-> 25, target |-> 21, reservation |-> 17]

\* C13: two calls of generate with the same seed return identical
\* DealParameters, whatever generate calls happen between them
C13_SameSeedSameParameters ==
    \A i, j \in 1..Len(probe[1].calls) :
        (/\ probe[1].calls[i].seed # None
         /\ probe[1].calls[i].seed = probe[1].calls[j].seed)
        => probe[1].calls[i].params = probe[1].calls[j].params

\* The item a session holds in the run that differs from this one only in
\* that no other session was ever operated on: the process as it started
\* serves this session's creation alone.
AloneItem(sid) ==
    new_session(generate(probe[1].start, probe[1].student_id[sid]).params)

\* C14: the DealParameters, history and guidance of a session do not depend
\* on the operations performed on other sessions: they are those of the run
\* with the same process start and the same operations on this session in
\* which the other session's operations never happened.
C14_SessionsIndependent ==
    \A sid \in DOMAIN table :
       \E alone \in {AloneItem(sid)} :
          /\ table[sid].deal_params = alone.deal_params
          /\ table[sid].deal_params_str = alone.deal_params_str
          /\ table[sid].conversation[1] = alone.conversation[1]
          /\ (turn # None /\ turn[1].sid = sid) =>
                turn[1].guidance \in
                   { create_negotiation_prompt(
                         turn[1].user_input, alone.deal_params_str,
                         Append(alone.conversation,
                                Msg("user", turn[1].user_input)),
                         turn[1].extracted, fp) : fp \in FloatOutcomes }

\* C15: each chat turn on a stored session appends exactly two messages to
\* its stored history, the user's message and then the counterpart's reply,
\* and changes nothing else of the item nor any other item; the stored
\* history always starts with the counterpart's greeting and alternates
\* roles.
C15_ChatAppendsTwoMessages ==
    /\ [][nturns' = nturns + 1 =>
            \E sid \in DOMAIN table :
               /\ turn' # None
               /\ turn'[1].sid = sid
               /\ DOMAIN table' = DOMAIN table
               /\ \A s \in DOMAIN table \ {sid} : table'[s] = table[s]
               /\ table'[sid].deal_params = table[sid].deal_params
               /\ table'[sid].deal_params_str = table[sid].deal_params_str
               /\ Len(table'[sid].conversation) = Len(table[sid].conversation) + 2
               /\ SubSeq(table'[sid].conversation, 1, Len(table[sid].conversation))
                     = table[sid].conversation
               /\ table'[sid].conversation[Len(table[sid].conversation) + 1]
                     = [role |-> "user", content |-> turn'[1].user_input]
               /\ table'[sid].conversation[Len(table[sid].conversation) + 2]
                     = [role |-> "assistant", content |-> turn'[1].ai_response]
         ]_vars
    /\ [](\A sid \in DOMAIN table :
             /\ table[sid].conversation[1] =
                   [role |-> "assistant",
                    content |-> greeting(table[sid].deal_params)]
             /\ table[sid].deal_params_str =
                   format_deal_parameters(table[sid].deal_params)
             /\ \A i \in 1..Len(table[sid].conversation) :
                   table[sid].conversation[i].role =
                      IF i % 2 = 1 THEN "assistant" ELSE "user")

\* C15 witness: two chat turns served, the stored history holding the
\* greeting and the two messages of each turn, the last being this turn's
C15_TwoTurnsStored ==
    /\ nturns = 2
    /\ turn # None
    /\ Len(table[turn[1].sid].conversation) = 5
    /\ table[turn[1].sid].conversation[4].content = turn[1].user_input
    /\ table[turn[1].sid].conversation[5].content = turn[1].ai_response

\* C16: when the offer rule 7 emits is fed back as the next anchor and the
\* same tier rule is applied again and again, the offers never rise, stay
\* positive, and reach a value that the rule no longer changes.
C16_RoundTripConverges ==
    /\ [][/\ probe'[1].L <= probe[1].L
          /\ probe'[1].L > 0
          /\ probe'[1].prev = Some(probe[1].L)]_vars
    /\ <>[](probe[1].prev = Some(probe[1].L))

\* C16 witness: the rule was applied to an anchor below the start and gave
\* the anchor back
C16_FixedPointReached ==
    /\ probe # None
    /\ probe[1].prev = Some(probe[1].L)
    /\ probe[1].L \notin RoundStarts

\* The concessions from the anchor L that the offers of Offers(L) draw in the
\* tier `rule`
Concessions(L, rule) ==
    { L - g.price[1] :
        g \in { h \in { concession(L, U, fp) : U \in Offers(L), fp \in FloatOutcomes } :
                  h.rule = rule } }

\* C17 as stated: at one anchor, the medium tier (0.10 <= gap <= 0.20) yields
\* the largest concession, the near-converged tier (gap < 0.10) an
\* intermediate one, and the large-gap tier (gap > 0.20) the smallest.
C17_MediumTierLargest ==
    (probe # None /\ probe[1].called /\ probe[1].guidance.rule \in Tiers) =>
        \E L \in {probe[1].L} :
        \E c \in {L - probe[1].guidance.price[1]} :
           /\ probe[1].guidance.rule = "standard" =>
                 \A d \in Concessions(L, "close") \cup Concessions(L, "lowball") : c >= d
           /\ probe[1].guidance.rule = "close" =>
                 \A d \in Concessions(L, "lowball") : c >= d

\* C17 amended: at one anchor, the near-converged tier (gap < 0.10) yields
\* the largest concession, the medium tier (0.10 <= gap <= 0.20) an
\* intermediate one and the large-gap tier (gap > 0.20) the smallest; from
\* an anchor of 10.00 on the three differ.
C17_NearTierLargest ==
    (probe # None /\ probe[1].called /\ probe[1].guidance.rule \in Tiers) =>
        \E L \in {probe[1].L} :
        \E c \in {L - probe[1].guidance.price[1]} :
           /\ c >= 0
           /\ probe[1].guidance.rule = "close" =>
                 \A d \in Concessions(L, "standard") \cup Concessions(L, "lowball") :
                    c >= d /\ (L >= 1000 => c > d)
           /\ probe[1].guidance.rule = "standard" =>
                 /\ \A d \in Concessions(L, "lowball") : c >= d /\ (L >= 1000 => c > d)
                 /\ \A d \in Concessions(L, "close") : c <= d

\* C17 witness: at the anchor 400.0 the near tier was applied and conceded
\* 10.00, with 6.00 and 2.00 the concessions of the other two tiers
C17_TenSixTwo ==
    /\ probe # None
    /\ probe[1].called
    /\ probe[1].L = 40000
    /\ probe[1].guidance.rule = "close"
    /\ probe[1].L - probe[1].guidance.price[1] = 1000
    /\ Concessions(40000, "standard") = {600}
    /\ Concessions(40000, "lowball") = {200}

\* The oracle answered with the expected object: exactly the three fields
ThreeFields(json) ==
    json.type = "object" /\ DOMAIN json.fields = {"price", "delivery", "volume"}

\* C18: extract never raises, and whenever the extraction oracle errors or
\* returns output that is not the expected three-field object the result is
\* the all-absent ExtractedTerms, so that the detector and the decision table
\* always receive a three-field result (no guidance computation fails on it).
C18_ExtractorFailsSoft ==
    (probe # None /\ probe[1].called) =>
        /\ ThreeFields(probe[1].data)
        /\ (probe[1].outcome.raises \/ ~ThreeFields(probe[1].outcome.json))
              => probe[1].data = AllAbsent
        /\ probe[1].guidance.cause # "AttributeError"

\* C19: whenever computing the turn guidance raises, the guidance is the
\* generic fallback "Negotiate professionally." (it names no number) and the
\* chat turn still completes: a reply is produced and the user's message and
\* the reply are appended and stored.
C19_GuidanceFailureFallsBack ==
    [][nturns' = nturns + 1 =>
          \E sid \in {turn'[1].sid}, user_input \in {turn'[1].user_input} :
          \E conv1 \in {Append(table[sid].conversation,
                               [role |-> "user", content |-> user_input])} :
             (\E fp \in FloatOutcomes :
                 generate_turn_guidance(user_input, conv1,
                                        table[sid].deal_params_str,
                                        turn'[1].extracted, fp).raised)
             => /\ turn'[1].guidance.rule = "fallback"
                /\ turn'[1].guidance.price = None
                /\ turn'[1].guidance.delivery = None
                /\ turn'[1].ai_response # <<>>
                /\ table'[sid].conversation =
                      Append(conv1, [role |-> "assistant",
                                     content |-> turn'[1].ai_response])
      ]_vars

\* C19 witness: a turn whose guidance computation raised TypeError was
\* answered under the fallback guidance and stored
C19_FallbackTurnStored ==
    /\ turn # None
    /\ turn[1].guidance.rule = "fallback"
    /\ turn[1].guidance.cause = "TypeError"
    /\ nturns = 2
    /\ Len(table[turn[1].sid].conversation) = 5
    /\ table[turn[1].sid].conversation[5].content = turn[1].ai_response

\* C20: when the call of the text oracle for the reply fails, the chat turn
\* completes: the reply is "Error: " and at most 50 characters of the
\* failure, it is appended after the user's message as the counterpart's
\* message and stored, the turn returns its result, and the oracle was
\* called once.
C20_OracleFailureIsAReply ==
    [][(nturns' = nturns + 1 /\ turn'[1].reply_failed) =>
          \E sid \in {turn'[1].sid}, reply \in {turn'[1].ai_response} :
          \E before \in {Len(table[sid].conversation)} :
             /\ Len(reply) > 7
             /\ Len(reply) <= 57
             /\ SubSeq(reply, 1, 7) = <<"E","r","r","o","r",":"," ">>
             /\ Len(table'[sid].conversation) = before + 2
             /\ SubSeq(table'[sid].conversation, 1, before) = table[sid].conversation
             /\ table'[sid].conversation[before + 1] =
                   [role |-> "user", content |-> turn'[1].user_input]
             /\ table'[sid].conversation[before + 2] =
                   [role |-> "assistant", content |-> reply]
             /\ turn'[1].deal_ready \in BOOLEAN
             /\ turn'[1].invocations = 1
      ]_vars

\* C20 witness: the oracle failed in two turns running; both error replies
\* are stored, the last one cut to 50 characters of the failure
C20_TwoFailuresStored ==
    /\ turn # None
    /\ turn[1].reply_failed
    /\ nturns = 2
    /\ Len(turn[1].ai_response) = 57
    /\ Len(table[turn[1].sid].conversation) = 5
    /\ table[turn[1].sid].conversation[5].content = turn[1].ai_response
    /\ SubSeq(table[turn[1].sid].conversation[3].content, 1, 7) = <<"E","r","r","o","r",":"," ">>

\* C21: a chat turn or an evaluation request for a session id the store does
\* not hold fails with the reported error 404 "Session not found"; the step
\* leaves the store as it was, records no turn and calls no oracle; and no
\* chat turn is ever recorded for an id the store did not hold.
C21_UnknownSessionNotFound ==
    [][/\ (Served' # Served /\ probe'[1].sid \notin DOMAIN table) =>
             /\ probe'[1].raised = Some(HTTPException(404, TxtNotFound))
             /\ probe'[1].invocations = 0
             /\ probe'[1].report = None
             /\ table' = table
             /\ turn' = turn
             /\ nturns' = nturns
       /\ nturns' # nturns => turn'[1].sid \in DOMAIN table
       /\ \A sid \in DOMAIN table' \ DOMAIN table :
             Served' = Served /\ nturns' = nturns
      ]_vars

\* C21 witness: an evaluation request for an id the store does not hold was
\* refused while another session, with a chat turn, is stored
C21_UnknownEvaluationRefused ==
    /\ probe # None
    /\ probe[1].handler = "evaluate"
    /\ probe[1].raised # None
    /\ probe[1].sid \notin DOMAIN table
    /\ nturns = 1
    /\ probe[1].n = 2

\* C22: the stored history is append-only under every interleaving of chat
\* requests: every message a request has written to the store is in the
\* stored history of its session, at the position it was written to.
C22_StoredHistoryAppendOnly ==
    \A w \in probe[1].written :
       /\ w.pos <= Len(table[w.sid].conversation)
       /\ table[w.sid].conversation[w.pos] = w.msg

\* C23: when readiness is detected, the closing price the counterpart is told
\* to confirm is never below the session's reservation price.
C23_ClosingPriceAboveReservation ==
    (probe[1].called /\ probe[1].guidance.rule = "deal") =>
        /\ probe[1].guidance.price # None
        /\ probe[1].guidance.price[1] >= probe[1].reservation

\* C24: whenever rule 7 emits a new offer for an extracted user price U and
\* an anchor L with U <= L, the emitted offer is not lower than U.
C24_OfferNotBelowUserPrice ==
    (Called /\ probe[1].guidance.rule \in Tiers /\ probe[1].U <= probe[1].L) =>
        probe[1].guidance.price[1] >= probe[1].U

\* C25: when the detector reports ready with a closing price backfilled from
\* a counterpart message (the user's terms hold no price), that price equals
\* the last-price anchor the policy engine resolves from the same history.
C25_BackfilledPriceIsAnchor ==
    (probe[1].called /\ probe[1].verdict.ready
        /\ probe[1].user.extracted.price = None) =>
        /\ ~probe[1].anchor.raised
        /\ probe[1].verdict.terms[1].price = Some(probe[1].anchor.val)
====
